---- MODULE Spec2Model ----
(***************************************************************************)
(* Model of the track-title parser of src/discogs/crawler/parser.rs:       *)
(* Scanner (lexer), Parser (fragments), parse_track (fold) and the         *)
(* PartialEq implementation of Track.                                      *)
(*                                                                         *)
(* A character is a one-element string; a Rust String is a sequence of     *)
(* characters.  Option<T> is a sequence of length 0 (None) or 1 (Some).    *)
(* Indices kept in the state (current, start) are 0-based as in the code.  *)
(***************************************************************************)
EXTENDS Integers, Sequences, FiniteSets, TLC

(***************************************************************************)
(* Bounds of the model.                                                    *)
(***************************************************************************)
\* number of pieces concatenated into a free-form input
MaxPieces == 3
\* number of words in a literal run of a template input
MaxRunLen == 2
\* length of the artists list of a Track handed to eq
MaxArtists == 2
\* length of the remix list of a Track handed to eq
MaxRemix == 2

(***************************************************************************)
(* Characters.                                                             *)
(***************************************************************************)
\* the NUL character '\0'
NUL == "NUL"
\* the tab character '\t'
TAB == "TAB"
\* a character outside ASCII (two bytes in UTF-8)
NonAscii == "U+00E9"

UpperCase == <<"A","B","C","D","E","F","G","H","I","J","K","L","M",
               "N","O","P","Q","R","S","T","U","V","W","X","Y","Z">>
LowerCase == <<"a","b","c","d","e","f","g","h","i","j","k","l","m",
               "n","o","p","q","r","s","t","u","v","w","x","y","z">>
Letters == {UpperCase[i] : i \in 1..26} \cup {LowerCase[i] : i \in 1..26}
Digits19 == {"1","2","3","4","5","6","7","8","9"}

is_ascii(c) == c # NonAscii

\* char::to_ascii_lowercase
LowerMap == [c \in {UpperCase[i] : i \in 1..26} |->
               LowerCase[CHOOSE i \in 1..26 : UpperCase[i] = c]]
char_to_ascii_lowercase(c) == IF c \in DOMAIN LowerMap THEN LowerMap[c] ELSE c
\* str::to_ascii_lowercase
to_ascii_lowercase(str) == [i \in 1..Len(str) |-> char_to_ascii_lowercase(str[i])]

\* char::to_ascii_uppercase (used only to build inputs)
UpperMap == [c \in {LowerCase[i] : i \in 1..26} |->
               UpperCase[CHOOSE i \in 1..26 : LowerCase[i] = c]]
to_ascii_uppercase(str) ==
  [i \in 1..Len(str) |-> IF str[i] \in DOMAIN UpperMap THEN UpperMap[str[i]] ELSE str[i]]

\* number of bytes of a character in the String
ByteLen(c) == IF is_ascii(c) THEN 1 ELSE 2

RECURSIVE ByteSize(_)
ByteSize(str) == IF str = <<>> THEN 0 ELSE ByteLen(Head(str)) + ByteSize(Tail(str))

\* str::get(from..to): byte offsets; None unless both are character boundaries
RECURSIVE CharIndexOf(_, _, _, _)
CharIndexOf(str, k, bytes, offset) ==
  IF bytes = offset THEN <<k>>
  ELSE IF k >= Len(str) \/ bytes > offset THEN <<>>
  ELSE CharIndexOf(str, k + 1, bytes + ByteLen(str[k + 1]), offset)

str_get(str, from, to) ==
  LET f == CharIndexOf(str, 0, 0, from)
      t == CharIndexOf(str, 0, 0, to)
  IN IF from > to \/ f = <<>> \/ t = <<>> THEN <<>>
     ELSE <<SubSeq(str, f[1] + 1, t[1])>>

\* the filter that puts a space where a character outside ASCII stood
RECURSIVE strip_non_ascii_to_space(_)
strip_non_ascii_to_space(str) ==
  IF str = <<>> THEN <<>>
  ELSE IF is_ascii(Head(str)) THEN <<Head(str)>> \o strip_non_ascii_to_space(Tail(str))
  ELSE <<" ">> \o strip_non_ascii_to_space(Tail(str))

\* input.replace(|c: char| !c.is_ascii(), "")
RECURSIVE strip_non_ascii(_)
strip_non_ascii(str) ==
  IF str = <<>> THEN <<>>
  ELSE IF is_ascii(Head(str)) THEN <<Head(str)>> \o strip_non_ascii(Tail(str))
  ELSE strip_non_ascii(Tail(str))

\* Vec<String>::join(sep)
RECURSIVE join(_, _)
join(strs, sep) ==
  IF strs = <<>> THEN <<>>
  ELSE IF Len(strs) = 1 THEN strs[1]
  ELSE strs[1] \o sep \o join(Tail(strs), sep)

SPACE == <<" ">>

(***************************************************************************)
(* TRACK_SIDE_REGEX  ^[a-zA-Z][1-9]$                                       *)
(***************************************************************************)
\* the pattern with the digit 0 allowed: ^[a-zA-Z][0-9]$
is_track_side_with_zero(value) ==
  /\ Len(value) = 2
  /\ value[1] \in Letters
  /\ value[2] \in Digits19 \cup {"0"}

is_track_side(value) ==
  /\ Len(value) = 2
  /\ value[1] \in Letters
  /\ value[2] \in Digits19

(***************************************************************************)
(* Tokens.                                                                 *)
(***************************************************************************)
TokenType == {"And", "Column", "LeftBracket", "LeftParen", "Literal", "Minus",
              "Plus", "Feat", "RightBracket", "RightParen", "Mix", "EOF", "Dot"}

Token(token_type, lexeme) == [token_type |-> token_type, lexeme |-> lexeme]

\* Scanner::new: the keyword table
keywords ==
  ( <<"r","e","m","i","x">> :> "Mix" ) @@
  ( <<"m","i","x">> :> "Mix" ) @@
  ( <<"i","n","s","t","r","u","m","e","n","t","a","l">> :> "Mix" ) @@
  ( <<"i","n","s","t","r",".">> :> "Mix" ) @@
  ( <<"f","e","a","t">> :> "Feat" ) @@
  ( <<"f","e","a","t",".">> :> "Feat" ) @@
  ( <<"R","e","m","i","x">> :> "Mix" ) @@
  ( <<"M","i","x">> :> "Mix" ) @@
  ( <<"r","e","c","o","n","s","t","r","u","c","t","i","o","n">> :> "Mix" ) @@
  ( <<"R","e","c","o","n","s","t","r","u","c","t","i","o","n">> :> "Mix" )

\* Scanner::is_special_token: Option<TokenType>
is_special_token(ch) ==
  CASE ch = "(" -> <<"LeftParen">>
    [] ch = ")" -> <<"RightParen">>
    [] ch = "[" -> <<"LeftBracket">>
    [] ch = "]" -> <<"RightBracket">>
    [] ch = "&" -> <<"And">>
    [] ch = "," -> <<"And">>
    [] ch = "-" -> <<"Minus">>
    [] ch = "+" -> <<"Plus">>
    [] ch = ":" -> <<"Column">>
    [] ch = "." -> <<"Dot">>
    [] ch = NUL -> <<"EOF">>
    [] OTHER -> <<>>

\* Scanner::is_whitespace
is_whitespace(ch) == ch = " "

(***************************************************************************)
(* State of one parse_track call.  All of it is local to the call:         *)
(*   raw        the argument of parse_track                                *)
(*   pc         "scan" (Scanner::scan loop), "parse" (Parser::parse loop), *)
(*              "fold" (the for loop of parse_track), "done", "idle"       *)
(*   panicked   an index or unwrap failed                                  *)
(*   scanner    the fields of Scanner                                      *)
(*   parser     the fields of Parser                                       *)
(*   fold       the locals of parse_track and the index of its for loop    *)
(*   track      Option<Track>, the value returned                          *)
(***************************************************************************)
Panic(s) == [s EXCEPT !.panicked = TRUE]

add_token(s, token_type, lexeme) ==
  [s EXCEPT !.scanner.tokens = Append(@, Token(token_type, lexeme))]

Scanner_is_at_end(s) == s.scanner.current >= s.scanner.end

\* the character read by Scanner::advance (chars[current])
Scanner_char(s) == s.scanner.chars[s.scanner.current + 1]

\* Scanner::advance: indexes chars[current] without a check
Scanner_advance(s) ==
  IF s.scanner.current >= Len(s.scanner.chars) THEN Panic(s)
  ELSE [s EXCEPT !.scanner.current = @ + 1]

Scanner_peek(s) ==
  IF Scanner_is_at_end(s) THEN NUL ELSE s.scanner.chars[s.scanner.current + 1]

\* the loop that stops a word at every '.'
RECURSIVE keyword_loop_dot_stops(_)
keyword_loop_dot_stops(s) ==
  IF s.panicked THEN s
  ELSE
    LET next_char == Scanner_peek(s)
        special_token == is_special_token(next_char)
    IN IF special_token # <<>> \/ is_whitespace(next_char)
       THEN s
       ELSE keyword_loop_dot_stops(Scanner_advance(s))

\* the loop with the dot rule turned round: a '.' is absorbed after a track
\* side and stops any other word
RECURSIVE keyword_loop_absorb_after_side(_)
keyword_loop_absorb_after_side(s) ==
  IF s.panicked THEN s
  ELSE
    LET next_char == Scanner_peek(s)
        special_token == is_special_token(next_char)
    IN IF special_token # <<>> \/ is_whitespace(next_char)
       THEN IF special_token = <<"Dot">>
            THEN LET part == str_get(s.scanner.input, s.scanner.start, s.scanner.current)
                 IN IF part = <<>> THEN Panic(s)
                    ELSE IF is_track_side(part[1])
                    THEN keyword_loop_absorb_after_side(Scanner_advance(s))
                    ELSE s
            ELSE s
       ELSE keyword_loop_absorb_after_side(Scanner_advance(s))

\* the loop of Scanner::keyword; the result is the scanner after the loop
RECURSIVE keyword_loop(_)
keyword_loop(s) ==
  IF s.panicked THEN s
  ELSE
    LET next_char == Scanner_peek(s)
        special_token == is_special_token(next_char)
    IN IF special_token # <<>> \/ is_whitespace(next_char)
       THEN IF special_token = <<"Dot">>
            THEN LET part == str_get(s.scanner.input, s.scanner.start, s.scanner.current)
                 IN IF part = <<>> THEN Panic(s)
                    ELSE IF is_track_side(part[1]) THEN s
                    ELSE keyword_loop(Scanner_advance(s))
            ELSE s
       ELSE keyword_loop(Scanner_advance(s))

\* Scanner::keyword: [s |-> scanner after the call, word |-> Option<String>]
keyword(s) ==
  LET s1 == keyword_loop(s)
  IN IF s1.panicked THEN [s |-> s1, word |-> <<>>]
     ELSE IF s1.scanner.start # s1.scanner.current
     THEN LET w == str_get(s1.scanner.input, s1.scanner.start, s1.scanner.current)
          IN IF w = <<>> THEN [s |-> Panic(s1), word |-> <<>>]
             ELSE [s |-> s1, word |-> w]
     ELSE [s |-> s1, word |-> <<>>]

\* scan_token with a lookup that ignores the case of the word
scan_token_fold_case(s0) ==
  LET s == [s0 EXCEPT !.scanner.start = s0.scanner.current]
  IN IF s.scanner.current >= Len(s.scanner.chars) THEN Panic(s)
     ELSE
       LET ch == Scanner_char(s)
           s1 == Scanner_advance(s)
           special == is_special_token(ch)
       IN IF special # <<>> THEN add_token(s1, special[1], <<>>)
          ELSE IF ch = " " \/ ch = TAB THEN s1
          ELSE LET k == keyword(s1)
               IN IF k.s.panicked \/ k.word = <<>> THEN k.s
                  ELSE IF to_ascii_lowercase(k.word[1]) \in DOMAIN keywords
                  THEN add_token(k.s, keywords[to_ascii_lowercase(k.word[1])], <<>>)
                  ELSE add_token(k.s, "Literal", k.word)

\* Scanner::scan_token, after start = current of the scan loop
scan_token(s0) ==
  LET s == [s0 EXCEPT !.scanner.start = s0.scanner.current]
  IN IF s.scanner.current >= Len(s.scanner.chars) THEN Panic(s)
     ELSE
       LET ch == Scanner_char(s)
           s1 == Scanner_advance(s)
           special == is_special_token(ch)
       IN IF special # <<>> THEN add_token(s1, special[1], <<>>)
          ELSE IF ch = " " \/ ch = TAB THEN s1
          ELSE LET k == keyword(s1)
               IN IF k.s.panicked \/ k.word = <<>> THEN k.s
                  ELSE IF k.word[1] \in DOMAIN keywords
                  THEN add_token(k.s, keywords[k.word[1]], <<>>)
                  ELSE add_token(k.s, "Literal", k.word)

\* Scanner::new
Scanner_new(input) ==
  [input |-> input, chars |-> input, current |-> 0, end |-> Len(input),
   start |-> 0, tokens |-> <<>>]

\* the whole of Scanner::scan, for use on a word or a text outside a call
RECURSIVE scan_loop(_)
scan_loop(s) ==
  IF s.panicked THEN s
  ELSE IF Scanner_is_at_end(s) THEN add_token(s, "EOF", <<>>)
  ELSE scan_loop(scan_token(s))

scan(input) ==
  scan_loop([panicked |-> FALSE, scanner |-> Scanner_new(input)]).scanner.tokens

(***************************************************************************)
(* Parser.  A fragment (TrackPart) is [kind, text].                        *)
(***************************************************************************)
TrackPart(kind, text) == [kind |-> kind, text |-> text]

\* Parser::new, given the tokens the scanner returned
Parser_new(tokens) == [current |-> 0, tokens |-> tokens, track_parts |-> <<>>]

\* tokens.get(current) is Some
Parser_peek_ok(s) == s.parser.current < Len(s.parser.tokens)

\* Parser::peek: tokens.get(current).unwrap(), read only where Parser_peek_ok
Parser_peek(s) == s.parser.tokens[s.parser.current + 1]

\* Parser::is_at_end
Parser_is_at_end(s) == Parser_peek(s).token_type = "EOF"

\* Parser::advance without its is_at_end() guard
Parser_advance_unguarded(s) ==
  IF s.panicked THEN s
  ELSE IF ~Parser_peek_ok(s) THEN Panic(s)
  ELSE [s EXCEPT !.parser.current = @ + 1]

\* Parser::advance
Parser_advance(s) ==
  IF s.panicked THEN s
  ELSE IF ~Parser_peek_ok(s) THEN Panic(s)
  ELSE IF Parser_is_at_end(s) THEN s
  ELSE [s EXCEPT !.parser.current = @ + 1]

\* Parser::add_part
add_part(s, part) == [s EXCEPT !.parser.track_parts = Append(@, part)]

\* Parser::peek_before: Option<Token>
peek_before(s) ==
  IF s.parser.current = 0 THEN <<>>
  ELSE IF s.parser.current - 1 < Len(s.parser.tokens)
  THEN <<s.parser.tokens[s.parser.current]>>
  ELSE <<>>

\* the loop of Parser::consume_literals
RECURSIVE consume_loop(_, _)
consume_loop(s, consumed) ==
  IF s.panicked THEN [s |-> s, consumed |-> consumed]
  ELSE IF ~Parser_peek_ok(s) THEN [s |-> Panic(s), consumed |-> consumed]
  ELSE IF Parser_is_at_end(s) \/ Parser_peek(s).token_type # "Literal"
  THEN [s |-> s, consumed |-> consumed]
  ELSE LET token == Parser_peek(s)
       IN IF token.lexeme = <<>> THEN [s |-> Panic(s), consumed |-> consumed]
          ELSE consume_loop(Parser_advance(s), Append(consumed, token.lexeme[1]))

\* consume_literals that joins the lexemes without the space
consume_literals_concat(s) ==
  LET r == consume_loop(s, <<>>)
  IN [s |-> r.s, text |-> join(r.consumed, <<>>)]

\* Parser::consume_literals: [s |-> parser after the call, text |-> String]
consume_literals(s) ==
  LET r == consume_loop(s, <<>>)
  IN [s |-> r.s, text |-> join(r.consumed, SPACE)]

\* first loop of is_remixer: for i in (0..=current).rev()
RECURSIVE left_parens_found(_, _)
left_parens_found(tokens, i) ==
  IF i < 0 THEN FALSE
  ELSE IF tokens[i + 1].token_type = "LeftParen" THEN TRUE
  ELSE IF tokens[i + 1].token_type = "Minus" THEN FALSE
  ELSE left_parens_found(tokens, i - 1)

\* second loop of is_remixer: for i in current..tokens.len()
RECURSIVE remix_token_found(_, _)
remix_token_found(tokens, i) ==
  IF i >= Len(tokens) THEN FALSE
  ELSE IF tokens[i + 1].token_type = "Mix" THEN TRUE
  ELSE IF tokens[i + 1].token_type = "RightParen" THEN FALSE
  ELSE remix_token_found(tokens, i + 1)

\* is_remixer without the scan forward
is_remixer_backward_only(s) == left_parens_found(s.parser.tokens, s.parser.current)

\* Parser::is_remixer, read only where Parser_peek_ok (tokens.get(i).unwrap())
is_remixer(s) ==
  /\ left_parens_found(s.parser.tokens, s.parser.current)
  /\ remix_token_found(s.parser.tokens, s.parser.current)

\* the Dot/Column arm that takes every run for a track side
arm_DotColumn_any_run(s, part) == Parser_advance(add_part(s, TrackPart("TrackSide", part)))

\* The arms of the match of Parser::parse.  s is the parser after the
\* consume_literals of the loop body, part its result; each arm gives the
\* parser at the end of the loop body (with the closing self.advance()).
arm_DotColumn(s, part) ==
  Parser_advance(IF is_track_side(part) THEN add_part(s, TrackPart("TrackSide", part)) ELSE s)

\* the Minus arm that never emits the artist
arm_Minus_no_artist(s, part) ==
  LET before == peek_before(s)
  IN IF before # <<>> /\ before[1].token_type = "Mix"
     THEN LET r == consume_literals(Parser_advance(s))
          IN Parser_advance(add_part(r.s, TrackPart("TrackName", r.text)))
     ELSE Parser_advance(s)

arm_Minus(s, part) ==
  LET before == peek_before(s)
  IN IF before # <<>>
     THEN IF before[1].token_type = "Mix"
          THEN LET r == consume_literals(Parser_advance(s))
               IN Parser_advance(add_part(r.s, TrackPart("TrackName", r.text)))
          ELSE IF part # <<>>
          THEN Parser_advance(add_part(s, TrackPart("ArtistName", part)))
          ELSE Parser_advance(s)
     ELSE Parser_advance(s)

\* the And/Feat arm without its self.advance() past the conjunction
arm_AndFeat_no_advance(s, part) ==
  LET s1 == IF is_remixer(s) THEN add_part(s, TrackPart("Remix", part))
            ELSE add_part(s, TrackPart("ArtistName", part))
      r == consume_literals(s1)
  IN IF r.s.panicked THEN r.s
     ELSE IF ~Parser_peek_ok(r.s) THEN Panic(r.s)
     ELSE IF is_remixer(r.s)
     THEN add_part(r.s, TrackPart("Remix", r.text))
     ELSE add_part(r.s, TrackPart("ArtistName", r.text))

\* the And/Feat arm that takes the second name for an artist always
arm_AndFeat_second_artist(s, part) ==
  LET s1 == IF is_remixer(s) THEN add_part(s, TrackPart("Remix", part))
            ELSE add_part(s, TrackPart("ArtistName", part))
      r == consume_literals(Parser_advance(s1))
  IN IF r.s.panicked THEN r.s
     ELSE IF ~Parser_peek_ok(r.s) THEN Panic(r.s)
     ELSE add_part(r.s, TrackPart("ArtistName", r.text))

arm_AndFeat(s, part) ==
  LET s1 == IF is_remixer(s) THEN add_part(s, TrackPart("Remix", part))
            ELSE add_part(s, TrackPart("ArtistName", part))
      r == consume_literals(Parser_advance(s1))
  IN IF r.s.panicked THEN r.s
     ELSE IF ~Parser_peek_ok(r.s) THEN Panic(r.s)
     ELSE IF is_remixer(r.s)
     THEN Parser_advance(add_part(r.s, TrackPart("Remix", r.text)))
     ELSE add_part(r.s, TrackPart("ArtistName", r.text))

\* while collecting && !self.is_at_end() of the LeftParen arm
RECURSIVE collect_after_paren(_, _)
collect_after_paren(s, track_name) ==
  IF s.panicked THEN [s |-> s, track_name |-> track_name]
  ELSE IF ~Parser_peek_ok(s) THEN [s |-> Panic(s), track_name |-> track_name]
  ELSE IF Parser_is_at_end(s) THEN [s |-> s, track_name |-> track_name]
  ELSE IF Parser_peek(s).token_type = "Literal"
  THEN LET r == consume_literals(s)
       IN collect_after_paren(r.s, track_name \o r.text)
  ELSE [s |-> s, track_name |-> track_name]

\* the LeftParen arm without the parenthesis that starts a track name
arm_LeftParen_plain(s, part) == Parser_advance(add_part(s, TrackPart("TrackName", part)))

arm_LeftParen(s, part) ==
  IF part = <<>> /\ s.parser.track_parts # <<>>
  THEN LET r == consume_literals(Parser_advance(s))
           track_name == <<"(">> \o r.text
       IN IF r.s.panicked THEN r.s
          ELSE IF ~Parser_peek_ok(r.s) THEN Panic(r.s)
          ELSE IF Parser_peek(r.s).token_type = "RightParen"
          THEN LET c == collect_after_paren(Parser_advance(r.s), track_name \o <<")">>)
               IN Parser_advance(add_part(c.s, TrackPart("TrackName", c.track_name)))
          ELSE Parser_advance(add_part(r.s, TrackPart("TrackName", track_name)))
  ELSE Parser_advance(add_part(s, TrackPart("TrackName", part)))

arm_Mix(s, part) == Parser_advance(add_part(s, TrackPart("Remix", part)))

\* the LeftBracket arm that emits the track name after any fragment
arm_LeftBracket_always(s, part) ==
  IF s.parser.track_parts # <<>>
  THEN Parser_advance(add_part(s, TrackPart("TrackName", part)))
  ELSE Parser_advance(s)

arm_LeftBracket(s, part) ==
  IF s.parser.track_parts # <<>>
  THEN LET last_part == s.parser.track_parts[Len(s.parser.track_parts)]
       IN IF last_part.kind = "Remix" THEN Parser_advance(s)
          ELSE IF last_part.kind = "ArtistName"
          THEN Parser_advance(add_part(s, TrackPart("TrackName", part)))
          ELSE Parser_advance(s)
  ELSE Parser_advance(s)

arm_RightParen(s, part) == Parser_advance(s)

arm_RightBracket(s, part) == Parser_advance(add_part(s, TrackPart("Label", part)))

arm_Other(s, part) == Parser_advance(add_part(s, TrackPart("TrackName", part)))

\* the arm the match takes for a token type
Arm(token_type) ==
  CASE token_type \in {"Dot", "Column"} -> "DotColumn"
    [] token_type = "Minus" -> "Minus"
    [] token_type \in {"And", "Feat"} -> "AndFeat"
    [] token_type = "LeftParen" -> "LeftParen"
    [] token_type = "Mix" -> "Mix"
    [] token_type = "LeftBracket" -> "LeftBracket"
    [] token_type = "RightParen" -> "RightParen"
    [] token_type = "RightBracket" -> "RightBracket"
    [] OTHER -> "Other"

\* the token the match of the loop body dispatches on: Option<TokenType>
DispatchType(s) ==
  LET r == consume_literals(s)
  IN IF r.s.panicked \/ ~Parser_peek_ok(r.s) THEN <<>>
     ELSE <<Parser_peek(r.s).token_type>>

\* one iteration of the while loop of Parser::parse
parse_iteration(s) ==
  LET r == consume_literals(s)
  IN IF r.s.panicked THEN r.s
     ELSE IF ~Parser_peek_ok(r.s) THEN Panic(r.s)
     ELSE LET arm == Arm(Parser_peek(r.s).token_type)
          IN CASE arm = "DotColumn" -> arm_DotColumn(r.s, r.text)
               [] arm = "Minus" -> arm_Minus(r.s, r.text)
               [] arm = "AndFeat" -> arm_AndFeat(r.s, r.text)
               [] arm = "LeftParen" -> arm_LeftParen(r.s, r.text)
               [] arm = "Mix" -> arm_Mix(r.s, r.text)
               [] arm = "LeftBracket" -> arm_LeftBracket(r.s, r.text)
               [] arm = "RightParen" -> arm_RightParen(r.s, r.text)
               [] arm = "RightBracket" -> arm_RightBracket(r.s, r.text)
               [] OTHER -> arm_Other(r.s, r.text)

\* the whole of Parser::parse, for use outside a call
RECURSIVE parse_loop(_)
parse_loop(s) ==
  IF s.panicked THEN s
  ELSE IF ~Parser_peek_ok(s) THEN Panic(s)
  ELSE IF Parser_is_at_end(s) THEN s
  ELSE parse_loop(parse_iteration(s))

parse(input) ==
  parse_loop([panicked |-> FALSE, parser |-> Parser_new(scan(input))]).parser.track_parts

(***************************************************************************)
(* parse_track: the fold of the fragments into a Track.                    *)
(***************************************************************************)
Track(name, artists, catno, remix, position) ==
  [name |-> name, artists |-> artists, catno |-> catno, remix |-> remix,
   position |-> position]

\* the locals of parse_track with a name to start from
Fold_new_untitled == [i |-> 1, artists |-> {}, name |-> <<"?">>, remix |-> {},
                      position |-> <<>>, catno |-> <<>>]

\* the locals of parse_track before its for loop; i is the next fragment
Fold_new == [i |-> 1, artists |-> {}, name |-> <<>>, remix |-> {},
             position |-> <<>>, catno |-> <<>>]

ORIGINAL == <<"o","r","i","g","i","n","a","l">>

\* the fold that keeps "original" as a remixer
fold_part_keep_original(s) ==
  LET part == s.parser.track_parts[s.fold.i]
      f == [s.fold EXCEPT !.i = @ + 1]
  IN [s EXCEPT !.fold =
       CASE part.kind = "ArtistName" -> [f EXCEPT !.artists = @ \cup {part.text}]
         [] part.kind = "Remix" -> [f EXCEPT !.remix = @ \cup {part.text}]
         [] part.kind = "TrackName" -> [f EXCEPT !.name = part.text]
         [] part.kind = "TrackSide" -> [f EXCEPT !.position = part.text]
         [] part.kind = "Label" -> [f EXCEPT !.catno = part.text]]

\* the iteration that keeps the first name, position and catno
fold_part_first_wins(s) ==
  LET part == s.parser.track_parts[s.fold.i]
      f == [s.fold EXCEPT !.i = @ + 1]
  IN [s EXCEPT !.fold =
       CASE part.kind = "ArtistName" -> [f EXCEPT !.artists = @ \cup {part.text}]
         [] part.kind = "Remix" ->
              IF to_ascii_lowercase(part.text) = ORIGINAL THEN f
              ELSE [f EXCEPT !.remix = @ \cup {part.text}]
         [] part.kind = "TrackName" -> IF f.name = <<>> THEN [f EXCEPT !.name = part.text] ELSE f
         [] part.kind = "TrackSide" ->
              IF f.position = <<>> THEN [f EXCEPT !.position = part.text] ELSE f
         [] part.kind = "Label" -> IF f.catno = <<>> THEN [f EXCEPT !.catno = part.text] ELSE f]

\* one iteration of `for part in track_parts`
fold_part(s) ==
  LET part == s.parser.track_parts[s.fold.i]
      f == [s.fold EXCEPT !.i = @ + 1]
  IN [s EXCEPT !.fold =
       CASE part.kind = "ArtistName" -> [f EXCEPT !.artists = @ \cup {part.text}]
         [] part.kind = "Remix" ->
              IF to_ascii_lowercase(part.text) = ORIGINAL THEN f
              ELSE [f EXCEPT !.remix = @ \cup {part.text}]
         [] part.kind = "TrackName" -> [f EXCEPT !.name = part.text]
         [] part.kind = "TrackSide" -> [f EXCEPT !.position = part.text]
         [] part.kind = "Label" -> [f EXCEPT !.catno = part.text]]

\* the elements once each up to letter case
VecFromSet_fold_case(set) ==
  {v \in UNION {[1..n -> set] : n \in 0..Cardinality(set)} :
     /\ \A i, j \in 1..Len(v) :
          i # j => to_ascii_lowercase(v[i]) # to_ascii_lowercase(v[j])
     /\ \A x \in set : \E i \in 1..Len(v) : to_ascii_lowercase(v[i]) = to_ascii_lowercase(x)}

\* Vec::from_iter(HashSet): the elements once each, in an order the hasher picks
VecFromSet(set) ==
  {v \in [1..Cardinality(set) -> set] :
     \A i, j \in 1..Cardinality(set) : i # j => v[i] # v[j]}

\* the for loop of parse_track to its end
RECURSIVE fold_loop(_)
fold_loop(s) ==
  IF s.fold.i > Len(s.parser.track_parts) THEN s ELSE fold_loop(fold_part(s))

\* parse_track of a text outside a call: its locals when the for loop has
\* ended, artists and remix still the HashSets
parse_track(text) ==
  fold_loop([parser |-> [track_parts |-> parse(strip_non_ascii(text))],
             fold |-> Fold_new]).fold

(***************************************************************************)
(* impl PartialEq for Track                                                *)
(***************************************************************************)
\* the inner for loop: some element of others from index j on equals x ignoring case
RECURSIVE found(_, _, _)
found(x, others, j) ==
  IF j > Len(others) THEN FALSE
  ELSE IF to_ascii_lowercase(others[j]) = to_ascii_lowercase(x) THEN TRUE
  ELSE found(x, others, j + 1)

\* the outer for loop from index i on: FALSE at the first element not found
RECURSIVE all_found(_, _, _)
all_found(list, others, i) ==
  IF i > Len(list) THEN TRUE
  ELSE IF ~found(list[i], others, 1) THEN FALSE
  ELSE all_found(list, others, i + 1)

\* eq content with one artist of self found in other
eq_some_artist(self, other) ==
  IF Len(self.artists) # Len(other.artists) THEN FALSE
  ELSE IF Len(self.remix) # Len(other.remix) THEN FALSE
  ELSE IF to_ascii_lowercase(self.name) # to_ascii_lowercase(other.name) THEN FALSE
  ELSE IF /\ self.artists # <<>>
          /\ \A i \in 1..Len(self.artists) : ~found(self.artists[i], other.artists, 1)
  THEN FALSE
  ELSE all_found(self.remix, other.remix, 1)

\* eq comparing the lists entry by entry, in their order
eq_in_order(self, other) ==
  IF Len(self.artists) # Len(other.artists) THEN FALSE
  ELSE IF Len(self.remix) # Len(other.remix) THEN FALSE
  ELSE IF to_ascii_lowercase(self.name) # to_ascii_lowercase(other.name) THEN FALSE
  ELSE /\ \A i \in 1..Len(self.artists) :
            to_ascii_lowercase(self.artists[i]) = to_ascii_lowercase(other.artists[i])
       /\ \A i \in 1..Len(self.remix) :
            to_ascii_lowercase(self.remix[i]) = to_ascii_lowercase(other.remix[i])

\* eq without the length test of remix
eq_no_remix_len(self, other) ==
  IF Len(self.artists) # Len(other.artists) THEN FALSE
  ELSE IF to_ascii_lowercase(self.name) # to_ascii_lowercase(other.name) THEN FALSE
  ELSE IF ~all_found(self.artists, other.artists, 1) THEN FALSE
  ELSE all_found(self.remix, other.remix, 1)

\* eq without the length test of artists
eq_no_artists_len(self, other) ==
  IF Len(self.remix) # Len(other.remix) THEN FALSE
  ELSE IF to_ascii_lowercase(self.name) # to_ascii_lowercase(other.name) THEN FALSE
  ELSE IF ~all_found(self.artists, other.artists, 1) THEN FALSE
  ELSE all_found(self.remix, other.remix, 1)

\* eq comparing the names as they are written
eq_name_case(self, other) ==
  IF Len(self.artists) # Len(other.artists) THEN FALSE
  ELSE IF Len(self.remix) # Len(other.remix) THEN FALSE
  ELSE IF self.name # other.name THEN FALSE
  ELSE IF ~all_found(self.artists, other.artists, 1) THEN FALSE
  ELSE all_found(self.remix, other.remix, 1)

eq(self, other) ==
  IF Len(self.artists) # Len(other.artists) THEN FALSE
  ELSE IF Len(self.remix) # Len(other.remix) THEN FALSE
  ELSE IF to_ascii_lowercase(self.name) # to_ascii_lowercase(other.name) THEN FALSE
  ELSE IF ~all_found(self.artists, other.artists, 1) THEN FALSE
  ELSE all_found(self.remix, other.remix, 1)

(***************************************************************************)
(* Inputs.  A run is a sequence of words; its text is the words joined by  *)
(* single spaces.  A sample records how the text handed to parse_track was *)
(* built: kind "free" is a concatenation of pieces, the other kinds are    *)
(* the title shapes of the tests of parser.rs.                             *)
(***************************************************************************)
Str(run) == join(run, SPACE)

Words == { <<"a">>, <<"B","b">>, <<"X",".">> }
Runs == UNION {[1..n -> Words] : n \in 1..MaxRunLen}

\* runs for the parts of a title a case is not about
Bg1 == << <<"Q">> >>
Bg2 == << <<"U","n">>, <<"3">> >>
Bg == {Bg1, Bg2}

\* remixer runs: the runs, and the spellings of "original"
RemixRuns ==
  Runs \cup { << <<"O","r","i","g","i","n","a","l">> >>,
              << <<"O","R","I","G","I","N","A","L">> >>,
              << <<"o","r","i","g","i","n","a","l">> >>,
              << <<"O","r","i","g","i","n","a","l">>, <<"a">> >> }

\* prefixes in front of ':' or '.'
Prefixes ==
  { << <<"A","1">> >>, << <<"z","9">> >>, << <<"A","0">> >>, << <<"A","B","1">> >>,
    << <<"1","A">> >>, << <<"A">> >>, << <<"A","1","2">> >>,
    << <<"A","1">>, <<"B","2">> >>, << <<"a">>, <<"A","1">> >> }

MixWords == { <<"R","e","m","i","x">>, <<"M","i","x">> }

\* words in front of a '.', and what follows the dot
DotWords ==
  { << <<"A","1">> >>, << <<"T","o","b","i","a","s">> >>, << <<"z","9">> >>,
    << <<"A","0">> >>, << <<"f","e","a","t">> >>, << <<"i","n","s","t","r">> >> }

\* single words: the keywords, other capitalisations of them, other words
SingleWords ==
  DOMAIN keywords \cup
  { <<"R","E","M","I","X">>, <<"M","I","X">>, <<"m","i","X">>,
    <<"I","n","s","t","r","u","m","e","n","t","a","l">>, <<"I","n","s","t","r",".">>,
    <<"F","e","a","t">>, <<"F","E","A","T">>, <<"F","e","a","t",".">>,
    <<"r","e","m","i","x","e","s">>, <<"f","e","a">>, <<"a">> }

\* a run in capitals
UpperRun(run) == [i \in 1..Len(run) |-> to_ascii_uppercase(run[i])]

\* two texts for a field that is written twice
TwoTexts == { << <<"a">> >>, << <<"B","b">> >> }
TwoSides == { << <<"A","1">> >>, << <<"B","2">> >> }

\* artists in front of a '.' that are no track side and no keyword with it
DotArtists ==
  { << <<"T","o","b","i","a","s">> >>, << <<"a">> >>, << <<"A","0">> >>,
    << <<"A","B","1">> >>, << <<"m","i","x">> >> }

\* titles with dots inside a word
DotTitles ==
  { << <<"L",".","E",".","M">> >>, << <<"a">>, <<"B",".","b">> >>, << <<"Q">> >> }

NoRun == <<>>
Sample(kind, A, B, C, T, R, S, X, Y, kw, sep) ==
  [kind |-> kind, A |-> A, B |-> B, C |-> C, T |-> T, R |-> R, S |-> S,
   X |-> X, Y |-> Y, kw |-> kw, sep |-> sep]

FreeSample == Sample("free", NoRun, NoRun, NoRun, NoRun, NoRun, NoRun, NoRun, NoRun, <<>>, <<>>)

SampleKinds ==
  {"AT", "ATR", "ABT", "XTAB", "XTABC", "SAT", "ATC", "ATRC", "AXY", "XDT", "MULTI",
   "AAT", "XTAA", "MAT", "ABCT", "W", "SY"}

\* the samples of one kind
Samples(kind) ==
  \* "A - T"
  CASE kind = "AT" ->
         {Sample("AT", A, NoRun, NoRun, T, NoRun, NoRun, NoRun, NoRun, <<>>, <<>>) :
              A \in Runs, T \in Runs}
    \* "A - T (R Remix)", "A - T (R Mix)"
    [] kind = "ATR" ->
         UNION {{Sample("ATR", Bg1, NoRun, NoRun, T, R, NoRun, NoRun, NoRun, kw, <<>>) :
                     T \in Runs, R \in RemixRuns} : kw \in MixWords}
    \* "A & B - T", "A, B - T"
    [] kind = "ABT" ->
         UNION {{Sample("ABT", A, B, NoRun, Bg2, NoRun, NoRun, NoRun, NoRun, <<>>, sep) :
                     A \in Runs, B \in Runs} : sep \in {<<" ","&"," ">>, <<","," ">>}}
    \* "X - T (A & B Remix)"
    [] kind = "XTAB" ->
         {Sample("XTAB", A, B, NoRun, Bg2, NoRun, NoRun, Bg1, NoRun, <<>>, <<>>) :
            A \in Runs, B \in Runs}
    \* "X - T (A, B & C Remix)"
    [] kind = "XTABC" ->
         UNION {{Sample("XTABC", A, B, C, Bg1, NoRun, NoRun, Bg2, NoRun, <<>>, <<>>) :
                     A \in Runs, B \in Runs} : C \in {Bg1, << <<"a">> >>}}
    \* "S: A - T", "S. A - T"
    [] kind = "SAT" ->
         UNION {{Sample("SAT", A, NoRun, NoRun, T, NoRun, S, NoRun, NoRun, <<>>, sep) :
                     S \in Prefixes, sep \in {<<":">>, <<".">>}} : A \in Bg, T \in Bg}
    \* "A - T [C]"
    [] kind = "ATC" ->
         {Sample("ATC", Bg2, NoRun, C, T, NoRun, NoRun, NoRun, NoRun, <<>>, <<>>) :
            T \in Runs, C \in Runs}
    \* "A - T (R Remix) [C]"
    [] kind = "ATRC" ->
         {Sample("ATRC", Bg2, NoRun, C, T, Bg1, NoRun, NoRun, NoRun, <<>>, <<>>) :
            T \in Runs, C \in Runs}
    \* "A - (X)Y"
    [] kind = "AXY" ->
         {Sample("AXY", Bg2, NoRun, NoRun, NoRun, NoRun, NoRun, X, Y, <<>>, <<>>) :
            X \in Runs, Y \in Runs \cup {NoRun}}
    \* "X. - T"
    [] kind = "XDT" ->
         {Sample("XDT", NoRun, NoRun, NoRun, T, NoRun, NoRun, X, NoRun, <<>>, <<>>) :
              X \in DotArtists, T \in DotTitles}
    \* "S. B. A - T + Y (R Mix) [C][X]": every kind of fragment, three of them twice
    [] kind = "MULTI" ->
         UNION {{Sample("MULTI", Bg1, B, C, T, Bg1, << <<"A","1">> >>, X, Y, <<>>, <<>>) :
                     T \in TwoTexts, Y \in TwoTexts} : B \in TwoSides, C \in TwoTexts, X \in TwoTexts}
    \* "A & B - T" and "X - T (A & B Remix)" with B the name A in capitals
    [] kind \in {"AAT", "XTAA"} ->
         {Sample(kind, A, UpperRun(A), NoRun, Bg1, NoRun, NoRun, Bg2, NoRun, <<>>, <<>>) :
            A \in Runs}
    \* "Mix A - T" (kw "front") and "A Mix - T" (kw "back")
    [] kind = "MAT" ->
         UNION {{Sample("MAT", A, NoRun, NoRun, T, NoRun, NoRun, NoRun, NoRun, kw, sep) :
                     A \in TwoTexts, T \in TwoTexts} : kw \in MixWords, sep \in {<<"f">>, <<"b">>}}
    \* "A, B & C - T"
    [] kind = "ABCT" ->
         {Sample("ABCT", A, Bg1, C, Bg2, NoRun, NoRun, NoRun, NoRun, <<>>, <<>>) :
              A \in TwoTexts, C \in { << <<"c">> >>, << <<"X",".">>, <<"a">> >> }}
    \* "S.", "S.Y"
    [] kind = "W" ->
         {Sample("W", NoRun, NoRun, NoRun, NoRun, NoRun, << w >>, NoRun, NoRun, <<>>, <<>>) :
              w \in SingleWords}
    [] kind = "SY" ->
         {Sample("SY", NoRun, NoRun, NoRun, NoRun, NoRun, S, NoRun, Y, <<>>, <<>>) :
              S \in DotWords, Y \in {NoRun, Bg1}}

REMIX == <<"R","e","m","i","x">>
DASH == <<" ","-"," ">>

\* the text of a sample
Render(p) ==
  CASE p.kind = "AT" -> Str(p.A) \o DASH \o Str(p.T)
    [] p.kind = "ATR" ->
         Str(p.A) \o DASH \o Str(p.T) \o <<" ","(">> \o Str(p.R) \o SPACE \o p.kw \o <<")">>
    [] p.kind = "ABT" -> Str(p.A) \o p.sep \o Str(p.B) \o DASH \o Str(p.T)
    [] p.kind = "XTAB" ->
         Str(p.X) \o DASH \o Str(p.T) \o <<" ","(">> \o Str(p.A) \o <<" ","&"," ">>
           \o Str(p.B) \o SPACE \o REMIX \o <<")">>
    [] p.kind = "XTABC" ->
         Str(p.X) \o DASH \o Str(p.T) \o <<" ","(">> \o Str(p.A) \o <<","," ">>
           \o Str(p.B) \o <<" ","&"," ">> \o Str(p.C) \o SPACE \o REMIX \o <<")">>
    [] p.kind = "SAT" -> Str(p.S) \o p.sep \o SPACE \o Str(p.A) \o DASH \o Str(p.T)
    [] p.kind = "ATC" -> Str(p.A) \o DASH \o Str(p.T) \o <<" ","[">> \o Str(p.C) \o <<"]">>
    [] p.kind = "ATRC" ->
         Str(p.A) \o DASH \o Str(p.T) \o <<" ","(">> \o Str(p.R) \o SPACE \o REMIX
           \o <<")"," ","[">> \o Str(p.C) \o <<"]">>
    [] p.kind = "AXY" -> Str(p.A) \o DASH \o <<"(">> \o Str(p.X) \o <<")">> \o Str(p.Y)
    [] p.kind = "XDT" -> Str(p.X) \o <<".">> \o DASH \o Str(p.T)
    [] p.kind = "W" -> Str(p.S)
    [] p.kind = "MULTI" ->
         Str(p.S) \o <<"."," ">> \o Str(p.B) \o <<"."," ">> \o Str(p.A) \o DASH \o Str(p.T)
           \o <<" ","+"," ">> \o Str(p.Y) \o <<" ","(">> \o Str(p.R) \o <<" ","M","i","x",")">>
           \o <<" ","[">> \o Str(p.C) \o <<"]","[">> \o Str(p.X) \o <<"]">>
    [] p.kind = "AAT" -> Str(p.A) \o <<" ","&"," ">> \o Str(p.B) \o DASH \o Str(p.T)
    [] p.kind = "XTAA" ->
         Str(p.X) \o DASH \o Str(p.T) \o <<" ","(">> \o Str(p.A) \o <<" ","&"," ">>
           \o Str(p.B) \o SPACE \o REMIX \o <<")">>
    [] p.kind = "MAT" ->
         IF p.sep = <<"f">> THEN p.kw \o SPACE \o Str(p.A) \o DASH \o Str(p.T)
         ELSE Str(p.A) \o SPACE \o p.kw \o DASH \o Str(p.T)
    [] p.kind = "ABCT" ->
         Str(p.A) \o <<","," ">> \o Str(p.B) \o <<" ","&"," ">> \o Str(p.C) \o DASH \o Str(p.T)
    [] p.kind = "SY" -> Str(p.S) \o <<".">> \o Str(p.Y)

\* pieces of free-form inputs
Pieces ==
  { <<"(">>, <<")">>, <<"[">>, <<"]">>, <<"&">>, <<"-">>, <<"+">>, <<":">>, <<".">>,
    <<NUL>>, <<" ">>, <<TAB>>, <<"a">>, <<"1">>, <<"m","i","x">>, <<"f","e","a","t">>,
    <<NonAscii>> }

RECURSIVE Concat(_)
Concat(strs) == IF strs = <<>> THEN <<>> ELSE Head(strs) \o Concat(Tail(strs))

FreeInputs == {Concat(ps) : ps \in UNION {[1..n -> Pieces] : n \in 0..MaxPieces}}

(***************************************************************************)
(* State.                                                                  *)
(*   call    the parse_track calls, each with its own locals               *)
(*   a, b    the Tracks of a comparison a.eq(&b)                           *)
(*   result  Option<bool>: what the last comparison returned               *)
(*   last    what was done last to a and b                                 *)
(***************************************************************************)
VARIABLES call, a, b, result, last

vars == <<call, a, b, result, last>>

CallIds == {1, 2}

\* parse_track(raw) up to the first iteration of Scanner::scan
NewCall(sample, raw) ==
  [sample |-> sample, raw |-> raw, pc |-> "scan", panicked |-> FALSE,
   scanner |-> Scanner_new(strip_non_ascii(raw)), parser |-> Parser_new(<<>>),
   fold |-> Fold_new, track |-> <<>>]

\* no call
IdleCall ==
  [sample |-> FreeSample, raw |-> <<>>, pc |-> "idle", panicked |-> FALSE,
   scanner |-> Scanner_new(<<>>), parser |-> Parser_new(<<>>),
   fold |-> Fold_new, track |-> <<>>]

EmptyTrack == Track(<<>>, <<>>, <<>>, <<>>, <<>>)

NoCompare == a = EmptyTrack /\ b = EmptyTrack /\ result = <<>> /\ last = "none"

Init ==
  /\ \/ \E kind \in SampleKinds : \E p \in Samples(kind) :
          call = [c \in CallIds |-> IF c = 1 THEN NewCall(p, Render(p)) ELSE IdleCall]
     \/ \E raw \in FreeInputs : call = [c \in CallIds |-> IF c = 1 THEN NewCall(FreeSample, raw) ELSE IdleCall]
  /\ NoCompare

\* self.add_token(TokenType::EOF, None) of Scanner::scan, then Parser { .. }
scan_end(s) ==
  LET s1 == add_token(s, "EOF", <<>>)
  IN [s1 EXCEPT !.parser = Parser_new(s1.scanner.tokens), !.pc = "parse"]

\* the while loop of Parser::parse ends: self.track_parts.to_vec()
parse_end(s) ==
  IF ~Parser_peek_ok(s) THEN Panic(s) ELSE [s EXCEPT !.pc = "fold"]

\* Track { name, artists: Vec::from_iter(artists), remix: Vec::from_iter(remix), .. }
return_track(s, artists, remix) ==
  [s EXCEPT !.pc = "done",
            !.track = <<Track(s.fold.name, artists, s.fold.catno, remix, s.fold.position)>>]

Running(c, pc) == call[c].pc = pc /\ ~call[c].panicked

\* one iteration of the while loop of Scanner::scan
ScanToken(c) ==
  /\ Running(c, "scan")
  /\ ~Scanner_is_at_end(call[c])
  /\ call' = [call EXCEPT ![c] = scan_token(@)]
  /\ UNCHANGED <<a, b, result, last>>

\* the end of Scanner::scan and the rest of Parser::new
ScanEnd(c) ==
  /\ Running(c, "scan")
  /\ Scanner_is_at_end(call[c])
  /\ call' = [call EXCEPT ![c] = scan_end(call[c])]
  /\ UNCHANGED <<a, b, result, last>>

\* the while loop of Parser::parse runs once more and its match takes the arm
ArmTaken(c, arm) ==
  /\ Running(c, "parse")
  /\ Parser_peek_ok(call[c])
  /\ ~Parser_is_at_end(call[c])
  /\ LET d == DispatchType(call[c]) IN d # <<>> /\ Arm(d[1]) = arm

\* one iteration of the while loop of Parser::parse, arm TokenType::Dot | TokenType::Column
ParseDotColumn(c) ==
  /\ ArmTaken(c, "DotColumn")
  /\ call' = [call EXCEPT ![c] = parse_iteration(call[c])]
  /\ UNCHANGED <<a, b, result, last>>

\* one iteration of the while loop of Parser::parse, arm TokenType::Minus
ParseMinus(c) ==
  /\ ArmTaken(c, "Minus")
  /\ call' = [call EXCEPT ![c] = parse_iteration(call[c])]
  /\ UNCHANGED <<a, b, result, last>>

\* one iteration of the while loop of Parser::parse, arm TokenType::And | TokenType::Feat
ParseAndFeat(c) ==
  /\ ArmTaken(c, "AndFeat")
  /\ call' = [call EXCEPT ![c] = parse_iteration(call[c])]
  /\ UNCHANGED <<a, b, result, last>>

\* one iteration of the while loop of Parser::parse, arm TokenType::LeftParen
ParseLeftParen(c) ==
  /\ ArmTaken(c, "LeftParen")
  /\ call' = [call EXCEPT ![c] = parse_iteration(call[c])]
  /\ UNCHANGED <<a, b, result, last>>

\* one iteration of the while loop of Parser::parse, arm TokenType::Mix
ParseMix(c) ==
  /\ ArmTaken(c, "Mix")
  /\ call' = [call EXCEPT ![c] = parse_iteration(call[c])]
  /\ UNCHANGED <<a, b, result, last>>

\* one iteration of the while loop of Parser::parse, arm TokenType::LeftBracket
ParseLeftBracket(c) ==
  /\ ArmTaken(c, "LeftBracket")
  /\ call' = [call EXCEPT ![c] = parse_iteration(call[c])]
  /\ UNCHANGED <<a, b, result, last>>

\* one iteration of the while loop of Parser::parse, arm TokenType::RightParen
ParseRightParen(c) ==
  /\ ArmTaken(c, "RightParen")
  /\ call' = [call EXCEPT ![c] = parse_iteration(call[c])]
  /\ UNCHANGED <<a, b, result, last>>

\* one iteration of the while loop of Parser::parse, arm TokenType::RightBracket
ParseRightBracket(c) ==
  /\ ArmTaken(c, "RightBracket")
  /\ call' = [call EXCEPT ![c] = parse_iteration(call[c])]
  /\ UNCHANGED <<a, b, result, last>>

\* one iteration of the while loop of Parser::parse, arm _
ParseOther(c) ==
  /\ ArmTaken(c, "Other")
  /\ call' = [call EXCEPT ![c] = parse_iteration(call[c])]
  /\ UNCHANGED <<a, b, result, last>>

\* the test of the while loop of Parser::parse fails (or its peek does)
ParseEnd(c) ==
  /\ Running(c, "parse")
  /\ ~Parser_peek_ok(call[c]) \/ Parser_is_at_end(call[c])
  /\ call' = [call EXCEPT ![c] = parse_end(call[c])]
  /\ UNCHANGED <<a, b, result, last>>

\* the iteration with the name kept in a place all calls share
FoldPart_shared_name(c) ==
  /\ Running(c, "fold")
  /\ call[c].fold.i <= Len(call[c].parser.track_parts)
  /\ call' = [d \in CallIds |->
                IF d = c THEN fold_part(call[c])
                ELSE [call[d] EXCEPT !.fold.name = fold_part(call[c]).fold.name]]
  /\ UNCHANGED <<a, b, result, last>>

\* one iteration of the for loop of parse_track
FoldPart(c) ==
  /\ Running(c, "fold")
  /\ call[c].fold.i <= Len(call[c].parser.track_parts)
  /\ call' = [call EXCEPT ![c] = fold_part(@)]
  /\ UNCHANGED <<a, b, result, last>>

\* parse_track returns the Track
Return(c) ==
  /\ Running(c, "fold")
  /\ call[c].fold.i > Len(call[c].parser.track_parts)
  /\ \E artists \in VecFromSet(call[c].fold.artists), remix \in VecFromSet(call[c].fold.remix) :
       call' = [call EXCEPT ![c] = return_track(call[c], artists, remix)]
  /\ UNCHANGED <<a, b, result, last>>

Next ==
  \E c \in CallIds :
    \/ ScanToken(c)
    \/ ScanEnd(c)
    \/ ParseDotColumn(c)
    \/ ParseMinus(c)
    \/ ParseAndFeat(c)
    \/ ParseLeftParen(c)
    \/ ParseMix(c)
    \/ ParseLeftBracket(c)
    \/ ParseRightParen(c)
    \/ ParseRightBracket(c)
    \/ ParseOther(c)
    \/ ParseEnd(c)
    \/ FoldPart(c)
    \/ Return(c)

Spec == Init /\ [][Next]_vars

(***************************************************************************)
(* Several calls of parse_track at once: each call owns its Scanner, its   *)
(* Parser and the locals of its fold, and the steps of the calls           *)
(* interleave in any order.                                                *)
(***************************************************************************)
ParTexts ==
  { <<"A","1","."," ","a"," ","&"," ","b"," ","-"," ","c"," ","+"," ","d"," ",
      "(","e"," ","M","i","x",")"," ","[","f","]">>,
    <<"a"," ","&"," ","A"," ","-"," ","b">>,
    <<"d"," ","(","a",","," ","b"," ","R","e","m","i","x",")">> }

InitPar ==
  /\ \E texts \in [CallIds -> ParTexts] :
       call = [c \in CallIds |-> NewCall(FreeSample, texts[c])]
  /\ NoCompare

SpecPar == InitPar /\ [][Next]_vars

(***************************************************************************)
(* Comparisons a.eq(&b) of two Tracks, and changes of a Track between two  *)
(* comparisons.  Track is a public struct with public fields, so the lists *)
(* of a Track handed to eq may hold any strings, repeated ones included.   *)
(***************************************************************************)
StrElems == { <<"a">>, <<"A">>, <<"b">> }
Lists(n) == UNION {[1..k -> StrElems] : k \in 0..n}
\* lists for the field a comparison is not about
Tiny == { <<>>, << <<"b">> >> }
\* values of catno and position
FieldValues == { <<>>, <<"c">> }

InitEq ==
  /\ call = [c \in CallIds |-> IdleCall]
  /\ result = <<>>
  /\ last = "init"
  /\ \E bn \in StrElems :
       \/ \E aa \in Lists(MaxArtists), ba \in Lists(MaxArtists), ar \in Tiny, br \in Tiny :
            /\ a = Track(<<"a">>, aa, <<>>, ar, <<>>)
            /\ b = Track(bn, ba, <<>>, br, <<>>)
       \/ \E aa \in Tiny, ba \in Tiny, ar \in Lists(MaxRemix), br \in Lists(MaxRemix) :
            /\ a = Track(<<"a">>, aa, <<>>, ar, <<>>)
            /\ b = Track(bn, ba, <<>>, br, <<>>)

\* a.eq(&b)
Compare ==
  /\ last = "init"
  /\ result' = <<eq(a, b)>>
  /\ last' = "eq"
  /\ UNCHANGED <<call, a, b>>

\* the list in another order
Permuted(list) ==
  {[i \in 1..Len(list) |-> list[p[i]]] : p \in Permutations(1..Len(list))} \ {list}

\* the string with the case of its letters changed
Recased(str) == {to_ascii_uppercase(str), to_ascii_lowercase(str)} \ {str}

\* the Track with the case of one of its strings changed
RecasedTrack(t) ==
  {[t EXCEPT !.name = n] : n \in Recased(t.name)}
  \cup UNION {{[t EXCEPT !.artists[i] = x] : x \in Recased(t.artists[i])} : i \in 1..Len(t.artists)}
  \cup UNION {{[t EXCEPT !.remix[i] = x] : x \in Recased(t.remix[i])} : i \in 1..Len(t.remix)}

\* a and b become ta and tb, and are compared again
Change(ta, tb, what) ==
  /\ a' = ta
  /\ b' = tb
  /\ result' = <<eq(ta, tb)>>
  /\ last' = what
  /\ UNCHANGED call

PermuteArtists ==
  /\ last = "eq"
  /\ \/ \E l \in Permuted(a.artists) : Change([a EXCEPT !.artists = l], b, "permute")
     \/ \E l \in Permuted(b.artists) : Change(a, [b EXCEPT !.artists = l], "permute")

PermuteRemix ==
  /\ last = "eq"
  /\ \/ \E l \in Permuted(a.remix) : Change([a EXCEPT !.remix = l], b, "permute")
     \/ \E l \in Permuted(b.remix) : Change(a, [b EXCEPT !.remix = l], "permute")

ChangeCase ==
  /\ last = "eq"
  /\ \/ \E t \in RecasedTrack(a) : Change(t, b, "case")
     \/ \E t \in RecasedTrack(b) : Change(a, t, "case")

ReplaceCatno ==
  /\ last = "eq"
  /\ \/ \E v \in FieldValues \ {a.catno} : Change([a EXCEPT !.catno = v], b, "catno")
     \/ \E v \in FieldValues \ {b.catno} : Change(a, [b EXCEPT !.catno = v], "catno")

ReplacePosition ==
  /\ last = "eq"
  /\ \/ \E v \in FieldValues \ {a.position} : Change([a EXCEPT !.position = v], b, "position")
     \/ \E v \in FieldValues \ {b.position} : Change(a, [b EXCEPT !.position = v], "position")

NextEq ==
  \/ Compare
  \/ PermuteArtists
  \/ PermuteRemix
  \/ ChangeCase
  \/ ReplaceCatno
  \/ ReplacePosition

SpecEq == InitEq /\ [][NextEq]_vars

(***************************************************************************)
(* Properties of eq.                                                       *)
(***************************************************************************)
\* some element of others equals x under ASCII case folding
HasMatch(x, others) ==
  \E j \in 1..Len(others) : to_ascii_lowercase(others[j]) = to_ascii_lowercase(x)

\* the set of the case-folded elements of a list
FoldSet(list) == {to_ascii_lowercase(list[i]) : i \in 1..Len(list)}

\* no two entries of the list are equal under case folding
NoFoldDup(list) ==
  \A i, j \in 1..Len(list) :
    i # j => to_ascii_lowercase(list[i]) # to_ascii_lowercase(list[j])

\* C2: a.eq(&b) returns true if and only if the artists lists have the same
\* length, the remix lists have the same length, the names are equal after
\* ASCII lowercasing, every artist of a has a case-insensitive equal in
\* b.artists and every remixer of a has a case-insensitive equal in b.remix.
C2_EqIffFiveConditions ==
  result # <<>> =>
    ( result[1] <=>
        /\ Len(a.artists) = Len(b.artists)
        /\ Len(a.remix) = Len(b.remix)
        /\ to_ascii_lowercase(a.name) = to_ascii_lowercase(b.name)
        /\ \A i \in 1..Len(a.artists) : HasMatch(a.artists[i], b.artists)
        /\ \A i \in 1..Len(a.remix) : HasMatch(a.remix[i], b.remix) )

\* two Tracks written differently have been compared and found equal
C2_Witness ==
  /\ last = "eq"
  /\ result = <<TRUE>>
  /\ Len(a.artists) = 2
  /\ a.artists # b.artists
  /\ a.name # b.name

\* C3: the result of a.eq(&b) does not change when the artists or the remix
\* list of either Track is permuted, when the letter case of a name, artist
\* or remixer is changed, or when catno or position of either Track is
\* replaced by another value.
C3_EqInvariantUnderChange ==
  [][last' \in {"permute", "case", "catno", "position"} => result' = result]_vars

\* a permuted list has been compared again, with the result true as before
C3_Witness ==
  /\ last = "permute"
  /\ result = <<TRUE>>
  /\ Len(a.artists) = 2
  /\ a.artists[1] # a.artists[2]

Done(c) == call[c].pc = "done"

\* the characters the scanner turns into a token of their own, and the blanks
Delimiters == {"(", ")", "[", "]", "&", ",", "-", "+", ":", ".", " ", TAB}

\* C1: for every input, the empty string, blank strings and strings of
\* delimiters included, parse_track never fails an index or an unwrap: the
\* scanner cursor stays within chars, the parser cursor stays on a token of
\* the buffer, every Literal token carries a lexeme, and the call that has
\* finished has returned a Track.
C1_NeverPanics ==
  \A c \in CallIds :
    /\ ~call[c].panicked
    /\ call[c].scanner.current <= call[c].scanner.end
    /\ call[c].scanner.end = Len(call[c].scanner.chars)
    /\ call[c].pc \in {"parse", "fold", "done"} =>
         /\ call[c].parser.current < Len(call[c].parser.tokens)
         /\ \A i \in 1..Len(call[c].parser.tokens) :
              call[c].parser.tokens[i].token_type = "Literal" =>
                call[c].parser.tokens[i].lexeme # <<>>
    /\ Done(c) <=> call[c].track # <<>>

\* a text of delimiters only has been parsed to the end
C1_Witness ==
  /\ Done(1)
  /\ call[1].raw = <<"&", "(", "-">>
  /\ \A i \in 1..Len(call[1].raw) : call[1].raw[i] \in Delimiters
  /\ call[1].track # <<>>

\* the Track the call returned, and the fragments it was folded from
Returned(c) == call[c].track[1]
Fragments(c) == call[c].parser.track_parts
SampleOf(c) == call[c].sample
ToSet(list) == {list[i] : i \in 1..Len(list)}

\* the call has returned for a sample of the kind
DoneKind(c, kind) == Done(c) /\ SampleOf(c).kind = kind

\* C5: for literal runs A and T, parse("A - T") returns artists = [A],
\* name = T, and empty remix, catno and position.
C5_ArtistDashTitle ==
  DoneKind(1, "AT") =>
    Returned(1) = Track(Str(SampleOf(1).T), <<Str(SampleOf(1).A)>>, <<>>, <<>>, <<>>)

\* "A - T" with a two-word artist has been parsed
C5_Witness ==
  /\ DoneKind(1, "AT")
  /\ Len(SampleOf(1).A) = 2
  /\ SampleOf(1).A # SampleOf(1).T
  /\ Returned(1).artists = <<Str(SampleOf(1).A)>>

\* C6: for literal runs A, T and R, parse("A - T (R Remix)") and
\* parse("A - T (R Mix)") return name = T, artists = [A] and remix = [R], a
\* run R of several words being one remixer; when R is "original" in any
\* letter case, remix is empty.
C6_RemixInParens ==
  DoneKind(1, "ATR") =>
    /\ Returned(1).name = Str(SampleOf(1).T)
    /\ Returned(1).artists = <<Str(SampleOf(1).A)>>
    /\ Returned(1).remix =
         IF to_ascii_lowercase(Str(SampleOf(1).R)) = <<"o","r","i","g","i","n","a","l">>
         THEN <<>> ELSE <<Str(SampleOf(1).R)>>
    /\ Returned(1).catno = <<>>
    /\ Returned(1).position = <<>>

\* "A - T (Original Mix)" has been parsed to a Track without remixer
C6_Witness ==
  /\ DoneKind(1, "ATR")
  /\ SampleOf(1).R = << <<"O","r","i","g","i","n","a","l">> >>
  /\ SampleOf(1).kw = <<"M","i","x">>
  /\ Returned(1).remix = <<>>

\* C7: parse("A & B - T") and parse("A, B - T") return the artists {A, B}
\* (two of them when A and B differ), name = T and no remixer;
\* parse("X - T (A & B Remix)") returns remix = {A, B} and
\* parse("X - T (A, B & C Remix)") returns remix = {A, B, C}, both with
\* artists = [X] and name = T.
C7_Conjunctions ==
  /\ DoneKind(1, "ABT") =>
       /\ ToSet(Returned(1).artists) = {Str(SampleOf(1).A), Str(SampleOf(1).B)}
       /\ Len(Returned(1).artists) = Cardinality({SampleOf(1).A, SampleOf(1).B})
       /\ Returned(1).name = Str(SampleOf(1).T)
       /\ Returned(1).remix = <<>>
  /\ DoneKind(1, "XTAB") =>
       /\ ToSet(Returned(1).remix) = {Str(SampleOf(1).A), Str(SampleOf(1).B)}
       /\ Len(Returned(1).remix) = Cardinality({SampleOf(1).A, SampleOf(1).B})
       /\ Returned(1).artists = <<Str(SampleOf(1).X)>>
       /\ Returned(1).name = Str(SampleOf(1).T)
  /\ DoneKind(1, "XTABC") =>
       /\ ToSet(Returned(1).remix) =
            {Str(SampleOf(1).A), Str(SampleOf(1).B), Str(SampleOf(1).C)}
       /\ Len(Returned(1).remix) =
            Cardinality({SampleOf(1).A, SampleOf(1).B, SampleOf(1).C})
       /\ Returned(1).artists = <<Str(SampleOf(1).X)>>
       /\ Returned(1).name = Str(SampleOf(1).T)

\* "X - T (A, B & C Remix)" has been parsed to three remixers
C7_Witness ==
  /\ DoneKind(1, "XTABC")
  /\ Len(Returned(1).remix) = 3
  /\ Len(Returned(1).artists) = 1

\* one ASCII letter followed by one digit 1-9
TrackSideCode(str) ==
  /\ Len(str) = 2
  /\ str[1] \in {"a","b","c","d","e","f","g","h","i","j","k","l","m","n","o","p","q",
                 "r","s","t","u","v","w","x","y","z","A","B","C","D","E","F","G","H",
                 "I","J","K","L","M","N","O","P","Q","R","S","T","U","V","W","X","Y","Z"}
  /\ str[2] \in {"1","2","3","4","5","6","7","8","9"}

\* C8: parse("S: A - T") and parse("S. A - T") return position = S exactly
\* when S is one letter followed by one digit 1-9, and then artists = [A]
\* and name = T and the TrackSide fragment comes first; for every other
\* prefix position is empty.
C8_TrackSidePrefix ==
  DoneKind(1, "SAT") =>
    IF TrackSideCode(Str(SampleOf(1).S))
    THEN /\ Returned(1).position = Str(SampleOf(1).S)
         /\ Returned(1).artists = <<Str(SampleOf(1).A)>>
         /\ Returned(1).name = Str(SampleOf(1).T)
         /\ Fragments(1) = << TrackPart("TrackSide", Str(SampleOf(1).S)),
                              TrackPart("ArtistName", Str(SampleOf(1).A)),
                              TrackPart("TrackName", Str(SampleOf(1).T)) >>
    ELSE Returned(1).position = <<>>

\* "z9. A - T" has been parsed to position z9
C8_Witness ==
  /\ DoneKind(1, "SAT")
  /\ SampleOf(1).sep = <<".">>
  /\ Returned(1).position = <<"z","9">>

\* C9: parse("A - T [C]") returns catno = C, name = T and artists = [A];
\* parse("A - T (R Remix) [C]") returns the same catno, name = T,
\* artists = [A] and remix = [R].
C9_CatalogNumber ==
  /\ DoneKind(1, "ATC") =>
       Returned(1) = Track(Str(SampleOf(1).T), <<Str(SampleOf(1).A)>>,
                           Str(SampleOf(1).C), <<>>, <<>>)
  /\ DoneKind(1, "ATRC") =>
       Returned(1) = Track(Str(SampleOf(1).T), <<Str(SampleOf(1).A)>>,
                           Str(SampleOf(1).C), <<Str(SampleOf(1).R)>>, <<>>)

\* "A - T (R Remix) [C]" has been parsed to catno C
C9_Witness ==
  /\ DoneKind(1, "ATRC")
  /\ Len(SampleOf(1).C) = 2
  /\ Returned(1).catno = Str(SampleOf(1).C)
  /\ Len(Returned(1).remix) = 1

\* C10: parse("A - (X)Y") returns name = "(" + X + ")" + Y and
\* artists = [A]; the fragments are the artist and this one track name, and
\* none is made of X or of Y alone.
C10_ParenStartsName ==
  DoneKind(1, "AXY") =>
    LET name == <<"(">> \o Str(SampleOf(1).X) \o <<")">> \o Str(SampleOf(1).Y)
    IN /\ Returned(1).name = name
       /\ Returned(1).artists = <<Str(SampleOf(1).A)>>
       /\ Returned(1).remix = <<>>
       /\ Fragments(1) = << TrackPart("ArtistName", Str(SampleOf(1).A)),
                            TrackPart("TrackName", name) >>

\* "A - (X)Y" with a text after the parenthesis has been parsed
C10_Witness ==
  /\ DoneKind(1, "AXY")
  /\ SampleOf(1).Y # <<>>
  /\ Len(SampleOf(1).X) = 2
  /\ Len(Returned(1).name) = Len(Str(SampleOf(1).X)) + Len(Str(SampleOf(1).Y)) + 2

(***************************************************************************)
(* Plain text, and inputs without fragments.                               *)
(***************************************************************************)
\* the characters the statement calls structural
Structural == {"(", ")", "[", "]", "&", ",", "-", "+", ":", "."}
NoStructural(text) == \A i \in 1..Len(text) : text[i] \notin Structural

\* the text with each character outside ASCII taken out
Deleted(text) == SelectSeq(text, LAMBDA ch : ch # NonAscii)

\* the maximal pieces of text between the characters of seps; cur is the
\* piece being read
RECURSIVE Split(_, _, _)
Split(text, seps, cur) ==
  IF text = <<>> THEN (IF cur = <<>> THEN <<>> ELSE <<cur>>)
  ELSE IF Head(text) \in seps
  THEN (IF cur = <<>> THEN <<>> ELSE <<cur>>) \o Split(Tail(text), seps, <<>>)
  ELSE Split(Tail(text), seps, Append(cur, Head(text)))

\* the text up to its first NUL
RECURSIVE BeforeNul(_)
BeforeNul(text) ==
  IF text = <<>> \/ Head(text) = NUL THEN <<>> ELSE <<Head(text)>> \o BeforeNul(Tail(text))

\* a piece without the tabs it starts with
RECURSIVE DropTabs(_)
DropTabs(piece) ==
  IF piece # <<>> /\ Head(piece) = TAB THEN DropTabs(Tail(piece)) ELSE piece

\* the words of an input where space and tab both separate words
BlankWords(text) == Split(Deleted(text), {" ", TAB}, <<>>)

\* the words of an input as the scanner delimits them: the pieces between
\* spaces of the text before the first NUL, the tabs in front of a piece dropped
SpaceWords(text) ==
  LET pieces == Split(BeforeNul(Deleted(text)), {" "}, <<>>)
      words == [i \in 1..Len(pieces) |-> DropTabs(pieces[i])]
  IN SelectSeq(words, LAMBDA w : w # <<>>)

\* the keywords that hold no structural character
PlainKeywords ==
  { <<"r","e","m","i","x">>, <<"R","e","m","i","x">>, <<"m","i","x">>, <<"M","i","x">>,
    <<"i","n","s","t","r","u","m","e","n","t","a","l">>,
    <<"r","e","c","o","n","s","t","r","u","c","t","i","o","n">>,
    <<"R","e","c","o","n","s","t","r","u","c","t","i","o","n">>,
    <<"f","e","a","t">> }

C12_NoFragmentsEmptyTrack ==
  /\ call[1].pc \in {"fold", "done"} /\ Fragments(1) = <<>> => ~call[1].panicked
  /\ Done(1) /\ Fragments(1) = <<>> => Returned(1) = EmptyTrack

\* a whitespace-only string has returned without fragments
C12_Witness ==
  /\ Done(1)
  /\ call[1].raw = <<" ", TAB>>
  /\ Fragments(1) = <<>>

(***************************************************************************)
(* The lexer.                                                              *)
(***************************************************************************)
\* Scanner::scan has just returned: the parser holds its tokens and has not
\* begun
Lexed(c) ==
  /\ call[c].pc = "parse" /\ ~call[c].panicked
  /\ call[c].parser.current = 0 /\ call[c].parser.track_parts = <<>>
\* the text the scanner was given, and the tokens it returned
LexInput(c) == call[c].scanner.input
Tokens(c) == call[c].parser.tokens

EOFToken == Token("EOF", <<>>)

\* a word of the statements: no blank, no structural character, no NUL
IsWord(str) ==
  /\ str # <<>>
  /\ \A i \in 1..Len(str) : str[i] \notin Structural \cup {" ", TAB, NUL}

\* the token of a completed word
WordToken(word) ==
  IF word \in DOMAIN keywords THEN Token(keywords[word], <<>>)
  ELSE Token("Literal", <<word>>)

\* the text around its first '.'
HasDot(text) == \E i \in 1..Len(text) : text[i] = "."
FirstDot(text) == CHOOSE i \in 1..Len(text) : text[i] = "." /\ \A j \in 1..(i - 1) : text[j] # "."
BeforeDot(text) == SubSeq(text, 1, FirstDot(text) - 1)
AfterDot(text) == SubSeq(text, FirstDot(text) + 1, Len(text))

\* a text u.v of a word u, a dot and nothing or a word v
WordDotWord(text) ==
  /\ HasDot(text)
  /\ IsWord(BeforeDot(text))
  /\ AfterDot(text) = <<>> \/ IsWord(AfterDot(text))

\* C13 as stated: for a text u.v, the dot is absorbed into the word exactly
\* when u matches the track-side pattern, and otherwise the word stops before
\* the dot and the dot is a token of its own: "A1." is one Literal, "Tobias."
\* is Literal("Tobias") and Dot.
C13_DotAbsorbedAfterTrackSide ==
  LET u == BeforeDot(LexInput(1))
      v == AfterDot(LexInput(1))
  IN Lexed(1) /\ WordDotWord(LexInput(1)) =>
       Tokens(1) =
         IF TrackSideCode(u) THEN <<WordToken(LexInput(1)), EOFToken>>
         ELSE <<WordToken(u), Token("Dot", <<>>)>>
                \o (IF v = <<>> THEN <<>> ELSE <<WordToken(v)>>) \o <<EOFToken>>

\* C13 amended: for a text u.v, the word stops before the dot exactly when u
\* matches the track-side pattern, and the dot is then a token of its own;
\* otherwise the dot is absorbed into the word: "A1." is Literal("A1") and
\* Dot, "Tobias." is the one Literal("Tobias.").
C13_DotStopsAfterTrackSide ==
  LET u == BeforeDot(LexInput(1))
      v == AfterDot(LexInput(1))
  IN Lexed(1) /\ WordDotWord(LexInput(1)) =>
       Tokens(1) =
         IF TrackSideCode(u)
         THEN <<Token("Literal", <<u>>), Token("Dot", <<>>)>>
                \o (IF v = <<>> THEN <<>> ELSE <<WordToken(v)>>) \o <<EOFToken>>
         ELSE <<WordToken(LexInput(1)), EOFToken>>

\* "A1." has been lexed into a Literal and a Dot
C13_Witness ==
  /\ Lexed(1)
  /\ SampleOf(1).kind = "SY"
  /\ LexInput(1) = <<"A", "1", ".">>
  /\ Len(Tokens(1)) = 3

HasBlank(text) == \E i \in 1..Len(text) : text[i] \in {" ", TAB}
FirstBlank(text) ==
  CHOOSE i \in 1..Len(text) : text[i] \in {" ", TAB} /\ \A j \in 1..(i - 1) : text[j] \notin {" ", TAB}
BeforeBlank(text) == SubSeq(text, 1, FirstBlank(text) - 1)
AfterBlank(text) == SubSeq(text, FirstBlank(text) + 1, Len(text))

\* C15: for words u and v the lexer produces for u + TAB + v what it
\* produces for u + SPACE + v, the two word tokens and EOF, and no lexeme of
\* any token sequence contains a space or a tab.
C15_TabIsWordBoundary ==
  Lexed(1) =>
    /\ HasBlank(LexInput(1)) /\ IsWord(BeforeBlank(LexInput(1))) /\ IsWord(AfterBlank(LexInput(1))) =>
         Tokens(1) = <<WordToken(BeforeBlank(LexInput(1))), WordToken(AfterBlank(LexInput(1))),
                       EOFToken>>
    /\ \A i \in 1..Len(Tokens(1)) :
         Tokens(1)[i].lexeme # <<>> =>
           \A j \in 1..Len(Tokens(1)[i].lexeme[1]) : Tokens(1)[i].lexeme[1][j] \notin {" ", TAB}

\* C17: the token sequence the lexer returns contains the EOF token exactly
\* once, as its last element, NUL characters in the text included.
C17_OneEOFLast ==
  Lexed(1) =>
    /\ Tokens(1) # <<>>
    /\ \A i \in 1..Len(Tokens(1)) : Tokens(1)[i].token_type = "EOF" <=> i = Len(Tokens(1))

\* the words the statement lists for Mix and for Feat
MixSpellings ==
  { <<"r","e","m","i","x">>, <<"R","e","m","i","x">>, <<"m","i","x">>, <<"M","i","x">>,
    <<"i","n","s","t","r","u","m","e","n","t","a","l">>, <<"i","n","s","t","r",".">>,
    <<"r","e","c","o","n","s","t","r","u","c","t","i","o","n">>,
    <<"R","e","c","o","n","s","t","r","u","c","t","i","o","n">> }
FeatSpellings == { <<"f","e","a","t">>, <<"f","e","a","t",".">> }

\* C16: a text that is one word lexes as Mix without lexeme exactly for the
\* eight listed spellings, as Feat without lexeme exactly for feat and feat.,
\* and as Literal(word) for every other word, other capitalisations of the
\* keywords included.
C16_CaseSensitiveKeywords ==
  Lexed(1) /\ (SampleOf(1).kind = "W" \/ IsWord(LexInput(1))) =>
    Tokens(1) =
      << IF LexInput(1) \in MixSpellings THEN Token("Mix", <<>>)
         ELSE IF LexInput(1) \in FeatSpellings THEN Token("Feat", <<>>)
         ELSE Token("Literal", <<LexInput(1)>>),
         EOFToken >>

\* "REMIX" has been lexed into a Literal
C16_Witness ==
  /\ Lexed(1)
  /\ SampleOf(1).kind = "W"
  /\ LexInput(1) = <<"R","E","M","I","X">>
  /\ Tokens(1)[1].token_type = "Literal"

(***************************************************************************)
(* parse_track: preprocessing and fold.                                    *)
(***************************************************************************)
\* the text holds a character outside ASCII
HasNonAscii(text) == \E i \in 1..Len(text) : text[i] = NonAscii

\* C18: parse_track of a text with non-ASCII characters returns the name,
\* catno, position, artist set and remix set that it returns for the text
\* with every non-ASCII character removed, and the lexer sees the tokens of
\* that text: a removed character separates no words.
C18_NonAsciiDeleted ==
  /\ Lexed(1) /\ HasNonAscii(call[1].raw) => Tokens(1) = scan(Deleted(call[1].raw))
  /\ Done(1) /\ HasNonAscii(call[1].raw) =>
       LET f == parse_track(Deleted(call[1].raw))
       IN /\ Returned(1).name = f.name
          /\ Returned(1).catno = f.catno
          /\ Returned(1).position = f.position
          /\ ToSet(Returned(1).artists) = f.artists
          /\ ToSet(Returned(1).remix) = f.remix

\* a text with a non-ASCII character between two letters has returned
C18_Witness ==
  /\ Done(1)
  /\ call[1].raw = <<"a", NonAscii, "a">>
  /\ Returned(1).name = <<"a", "a">>

\* the text of the last fragment of a kind, the empty string without one
RECURSIVE LastText(_, _)
LastText(parts, kind) ==
  IF parts = <<>> THEN <<>>
  ELSE IF parts[Len(parts)].kind = kind THEN parts[Len(parts)].text
  ELSE LastText(SubSeq(parts, 1, Len(parts) - 1), kind)

\* C19: an iteration of the fold changes only the field of the kind of its
\* fragment (ArtistName artists, Remix remix, TrackName name, TrackSide
\* position, Label catno), a TrackName, TrackSide or Label fragment
\* overwrites its field with its text, and the Track returned has for name,
\* position and catno the text of the last fragment of the kind.
C19_FoldFrame ==
  [][ /\ ( /\ call[1].pc = "fold" /\ call'[1].pc = "fold"
           /\ call'[1].fold.i = call[1].fold.i + 1 ) =>
           LET part == Fragments(1)[call[1].fold.i]
               f == call[1].fold
               g == call'[1].fold
           IN /\ part.kind # "ArtistName" => g.artists = f.artists
              /\ part.kind # "Remix" => g.remix = f.remix
              /\ part.kind # "TrackName" => g.name = f.name
              /\ part.kind # "TrackSide" => g.position = f.position
              /\ part.kind # "Label" => g.catno = f.catno
              /\ part.kind = "TrackName" => g.name = part.text
              /\ part.kind = "TrackSide" => g.position = part.text
              /\ part.kind = "Label" => g.catno = part.text
      /\ ( call[1].pc = "fold" /\ call'[1].pc = "done" ) =>
           /\ call'[1].track[1].name = LastText(Fragments(1), "TrackName")
           /\ call'[1].track[1].position = LastText(Fragments(1), "TrackSide")
           /\ call'[1].track[1].catno = LastText(Fragments(1), "Label")
    ]_vars

\* a call has returned whose fragments are of all five kinds, with two
\* TrackNames, two TrackSides and two Labels of different texts
C19_Witness ==
  /\ DoneKind(1, "MULTI")
  /\ {Fragments(1)[i].kind : i \in 1..Len(Fragments(1))} =
       {"ArtistName", "Remix", "TrackName", "TrackSide", "Label"}
  /\ \A kind \in {"TrackName", "TrackSide", "Label"} :
       \E i, j \in 1..Len(Fragments(1)) :
         /\ i < j
         /\ Fragments(1)[i].kind = kind /\ Fragments(1)[j].kind = kind
         /\ Fragments(1)[i].text # Fragments(1)[j].text
  /\ Returned(1).name = Str(SampleOf(1).Y)
  /\ Returned(1).position = Str(SampleOf(1).B)
  /\ Returned(1).catno = Str(SampleOf(1).X)

\* no string stands twice in the list
NoRepeat(list) == \A i, j \in 1..Len(list) : i # j => list[i] # list[j]

\* C20: in every Track returned, artists holds no string twice and remix
\* holds no string twice; "A & A - T" returns the artist A once; names that
\* differ only in letter case are both kept, as artists and as remixers.
C20_ExactDedup ==
  Done(1) =>
    /\ NoRepeat(Returned(1).artists)
    /\ NoRepeat(Returned(1).remix)
    /\ SampleOf(1).kind = "ABT" /\ SampleOf(1).A = SampleOf(1).B =>
         Returned(1).artists = <<Str(SampleOf(1).A)>>
    /\ SampleOf(1).kind = "AAT" /\ SampleOf(1).A # SampleOf(1).B =>
         /\ Len(Returned(1).artists) = 2
         /\ ToSet(Returned(1).artists) = {Str(SampleOf(1).A), Str(SampleOf(1).B)}
    /\ SampleOf(1).kind = "XTAA" /\ SampleOf(1).A # SampleOf(1).B =>
         /\ Len(Returned(1).remix) = 2
         /\ ToSet(Returned(1).remix) = {Str(SampleOf(1).A), Str(SampleOf(1).B)}

\* "a Bb & A BB - Q" has returned with two artists
C20_Witness ==
  /\ DoneKind(1, "AAT")
  /\ SampleOf(1).A = << <<"a">>, <<"B","b">> >>
  /\ Returned(1).artists = << <<"a"," ","B","b">>, <<"A"," ","B","B">> >>

(***************************************************************************)
(* Calls at once.                                                          *)
(***************************************************************************)
\* C21: with the steps of several calls interleaved in any order, a call
\* that has returned has returned the name, catno, position, artist set and
\* remix set that parse_track returns for its text when run alone.
C21_CallsIndependent ==
  \A c \in CallIds :
    Done(c) =>
      LET f == parse_track(call[c].raw)
      IN /\ Returned(c).name = f.name
         /\ Returned(c).catno = f.catno
         /\ Returned(c).position = f.position
         /\ ToSet(Returned(c).artists) = f.artists
         /\ ToSet(Returned(c).remix) = f.remix

\* two calls on different texts have both returned, each its own Track
C21_Witness ==
  /\ Done(1) /\ Done(2)
  /\ call[1].raw # call[2].raw
  /\ Returned(1).name = <<"d">> /\ Returned(1).catno = <<"f">>
  /\ Returned(2).name = <<"b">> /\ Len(Returned(2).artists) = 2

(***************************************************************************)
(* The arms of the parser.                                                 *)
(***************************************************************************)
\* the lexemes of the literal run that starts at token index i (from 0)
RECURSIVE LiteralRun(_, _)
LiteralRun(tokens, i) ==
  IF i >= Len(tokens) \/ tokens[i + 1].token_type # "Literal" THEN <<>>
  ELSE <<tokens[i + 1].lexeme[1]>> \o LiteralRun(tokens, i + 1)

\* the fragments a step of call 1 adds
NewFragments == SubSeq(call'[1].parser.track_parts, Len(Fragments(1)) + 1,
                       Len(call'[1].parser.track_parts))

\* C22: when a literal run is stopped by Minus, if the token right before
\* the run is Mix the iteration emits the TrackName of the run after the
\* dash and no ArtistName; otherwise, if the run is not empty, it emits
\* ArtistName(run).
C22_MinusAfterMix ==
  [][ ArmTaken(1, "Minus") =>
        LET tokens == Tokens(1)
            at == call[1].parser.current
            run == LiteralRun(tokens, at)
            next == LiteralRun(tokens, at + Len(run) + 1)
        IN IF at > 0 /\ tokens[at].token_type = "Mix"
           THEN NewFragments = <<TrackPart("TrackName", join(next, SPACE))>>
           ELSE run # <<>> => NewFragments = <<TrackPart("ArtistName", join(run, SPACE))>>
    ]_vars

\* scanning the token indices at, at-1, ..., 0 the first LeftParen or Minus
\* is a LeftParen
ParenFirstBackward(tokens, at) ==
  \E i \in 0..at :
    /\ tokens[i + 1].token_type = "LeftParen"
    /\ \A j \in (i + 1)..at : tokens[j + 1].token_type \notin {"LeftParen", "Minus"}

\* scanning the token indices at, at+1, ... the first Mix or RightParen is a Mix
MixFirstForward(tokens, at) ==
  \E i \in at..(Len(tokens) - 1) :
    /\ tokens[i + 1].token_type = "Mix"
    /\ \A j \in at..(i - 1) : tokens[j + 1].token_type \notin {"Mix", "RightParen"}

\* the kinds of the fragments with the text
KindsOf(parts, text) == {parts[i].kind : i \in {j \in 1..Len(parts) : parts[j].text = text}}

\* C23: at every cursor position of every token sequence is_remixer is true
\* exactly when the first LeftParen or Minus met scanning backward is a
\* LeftParen and the first Mix or RightParen met scanning forward is a Mix;
\* so in "A & B - T" both names become ArtistName fragments and in
\* "X - T (A & B Remix)" both become Remix fragments.
C23_IsRemixer ==
  /\ Lexed(1) =>
       \A at \in 0..(Len(Tokens(1)) - 1) :
         is_remixer([call[1] EXCEPT !.parser.current = at]) <=>
           (ParenFirstBackward(Tokens(1), at) /\ MixFirstForward(Tokens(1), at))
  /\ DoneKind(1, "ABT") =>
       /\ KindsOf(Fragments(1), Str(SampleOf(1).A)) = {"ArtistName"}
       /\ KindsOf(Fragments(1), Str(SampleOf(1).B)) = {"ArtistName"}
  /\ DoneKind(1, "XTAB") =>
       /\ KindsOf(Fragments(1), Str(SampleOf(1).A)) = {"Remix"}
       /\ KindsOf(Fragments(1), Str(SampleOf(1).B)) = {"Remix"}

\* the tokens of "X - T (A & B Remix)" have been lexed: is_remixer is true
\* at the And and false at the first token
C23_Witness ==
  /\ Lexed(1)
  /\ SampleOf(1).kind = "XTAB"
  /\ \E at \in 0..(Len(Tokens(1)) - 1) :
       /\ Tokens(1)[at + 1].token_type = "And"
       /\ is_remixer([call[1] EXCEPT !.parser.current = at])
  /\ ~is_remixer([call[1] EXCEPT !.parser.current = 0])

\* C24: every call of scan_token moves the scanner cursor forward by at
\* least one character, every iteration of the main loop of the parser moves
\* the token cursor forward by at least one token, and the token cursor
\* stays on a token with no EOF token before it; so the two loops end after
\* at most as many rounds as the text has characters and tokens.
C24_CursorsAdvance ==
  [][ /\ call[1].pc = "scan" /\ call'[1].pc = "scan" =>
           /\ call'[1].scanner.current >= call[1].scanner.current + 1
           /\ call'[1].scanner.current <= call'[1].scanner.end
      /\ call[1].pc = "parse" /\ call'[1].pc = "parse" =>
           call'[1].parser.current >= call[1].parser.current + 1
      /\ call'[1].pc \in {"parse", "fold", "done"} =>
           /\ call'[1].parser.current < Len(call'[1].parser.tokens)
           /\ \A j \in 1..call'[1].parser.current :
                call'[1].parser.tokens[j].token_type # "EOF"
    ]_vars

\* a call has returned after a LeftParen iteration that read a name after the
\* closing parenthesis, its cursor on the EOF token
C24_Witness ==
  /\ DoneKind(1, "AXY")
  /\ SampleOf(1).Y # <<>>
  /\ call[1].parser.current = Len(call[1].parser.tokens) - 1

(***************************************************************************)
(* Track::eq as a relation, and the lists parse_track returns.             *)
(***************************************************************************)
\* C25: eq is symmetric: a.eq(&b) and b.eq(&a) give the same answer for all
\* Tracks a and b.
C25_EqSymmetric == eq(a, b) = eq(b, a)

\* C26: in every Track returned neither artists nor remix holds the empty
\* string.
C26_NoEmptyName ==
  Done(1) =>
    /\ \A i \in 1..Len(Returned(1).artists) : Returned(1).artists[i] # <<>>
    /\ \A i \in 1..Len(Returned(1).remix) : Returned(1).remix[i] # <<>>

\* C27: for distinct names A, B and C, parse("A, B & C - T") returns the
\* three artists A, B and C, name = T and no remixer.
C27_ThreeArtists ==
  DoneKind(1, "ABCT") =>
    /\ ToSet(Returned(1).artists) = {Str(SampleOf(1).A), Str(SampleOf(1).B), Str(SampleOf(1).C)}
    /\ Len(Returned(1).artists) = 3
    /\ Returned(1).name = Str(SampleOf(1).T)
    /\ Returned(1).remix = <<>>

\* the Tracks a third Track of a comparison is taken from
ThirdTracks ==
  {Track(n, ar, <<>>, rx, <<>>) : n \in {<<"a">>, <<"b">>}, ar \in Lists(MaxArtists), rx \in Tiny}
  \cup
  {Track(n, ar, <<>>, rx, <<>>) : n \in {<<"a">>, <<"b">>}, ar \in Tiny, rx \in Lists(MaxRemix)}

\* C28: eq is transitive: for all Tracks a, b and c, if a.eq(&b) and
\* b.eq(&c) are true then a.eq(&c) is true.
C28_EqTransitive ==
  eq(a, b) => \A c \in ThirdTracks : eq(b, c) => eq(a, c)

\* three different Tracks are equal in a chain, a with a repeated artist
C28_Witness ==
  /\ eq(a, b)
  /\ Len(a.artists) = 2 /\ a.artists[1] = a.artists[2]
  /\ a # b
  /\ \E c \in ThirdTracks : c # a /\ c # b /\ eq(b, c)

\* the list is the other list in some order
IsPermutation(list, other) ==
  /\ Len(list) = Len(other)
  /\ \E p \in Permutations(1..Len(list)) : other = [i \in 1..Len(list) |-> list[p[i]]]

\* C29: eq is reflexive: t.eq(&t) is true for every Track t, with repeated
\* or case-variant entries too, and a Track is equal to the Track with the
\* same name and the same artists and remixers listed in another order, as
\* two calls of parse_track on one text may return them.
C29_EqReflexive ==
  /\ eq(a, a)
  /\ eq(b, b)
  /\ ( /\ a.name = b.name
       /\ IsPermutation(a.artists, b.artists)
       /\ IsPermutation(a.remix, b.remix) ) => eq(a, b)

\* a Track with case-variant artists is compared with itself in another order
C29_Witness ==
  /\ a.artists = << <<"a">>, <<"A">> >>
  /\ b.artists = << <<"A">>, <<"a">> >>
  /\ a.name = b.name /\ a.remix = b.remix
  /\ result = <<TRUE>>

\* C30: an iteration of the parser emits a TrackSide fragment only for a
\* literal run that is stopped by a Dot or a Column token and whose text as a
\* whole is one ASCII letter followed by one digit 1-9; the position of the
\* Track returned is the empty string or such a text.
C30_PositionIsTrackSide ==
  [][ /\ \A i \in 1..Len(NewFragments) :
           NewFragments[i].kind = "TrackSide" =>
             LET run == LiteralRun(Tokens(1), call[1].parser.current)
                 stop == call[1].parser.current + Len(run)
             IN /\ NewFragments = <<TrackPart("TrackSide", join(run, SPACE))>>
                /\ TrackSideCode(join(run, SPACE))
                /\ Tokens(1)[stop + 1].token_type \in {"Dot", "Column"}
      /\ call'[1].pc = "done" =>
           \/ call'[1].track[1].position = <<>>
           \/ TrackSideCode(call'[1].track[1].position)
    ]_vars

\* "z9: A - T" has returned with the position z9
C30_Witness ==
  /\ DoneKind(1, "SAT")
  /\ SampleOf(1).sep = <<":">>
  /\ Returned(1).position = <<"z", "9">>

=============================================================================
